---- MODULE Spec2Model ----
(***************************************************************************)
(* Model of the auth-service: two HTTP handlers (POST /register, POST      *)
(* /login) and the service-level lookup, behind one tokio RwLock, a pooled *)
(* connection per service call, and one relational table "users".          *)
(***************************************************************************)
EXTENDS Integers, Sequences, FiniteSets, TLC

(* ------------------------------ bounds --------------------------------- *)
NumTasks == 2
MaxRequests == 3
MaxIssueTime == 60
PoolMaxSize == 2

(* --------------------------- program constants ------------------------- *)
TicksPerSecond == 2
StatusOk == 200
StatusUnauthorized == 401
StatusUnprocessable == 422
StatusInternalServerError == 500

Tasks == 1..NumTasks
NoTask == 0
Usernames == {"John", "ghost"}
Passwords == {"hashed_pwd##", "wrong"}
Interests == {"Programming, gaming"}
Salts == {"salt_a", "salt_b"}
IssueTimes == 0..MaxIssueTime
Secret == "random"
Conns == 1..PoolMaxSize

VARIABLES
    users,    \* the rows of the users table
    seq,      \* last value drawn from the id sequence of the table
    lock,     \* the task holding the RwLock write guard, or NoTask
    waiters,  \* tasks queued on RwLock::write, in arrival order
    checked,  \* the pooled connections checked out, each with its holder
    pc,       \* position of each task
    req,      \* the request each task is serving
    local,    \* locals of the service call of each task
    env,      \* what pool, store and signer answered during the request
    svc,      \* what the service call returned
    out,      \* what the caller of the request observed
    started,  \* number of requests accepted so far
    registered, \* history: the credentials of every successful registration
    issued,   \* the token issue under test (SpecJwt)
    repo      \* the repository call under test (SpecRepo)

vars == <<users, seq, lock, waiters, checked, pc, req, local, env, svc, out,
          started, registered, issued, repo>>

(* ------------------------------ hasher --------------------------------- *)
\* The plaintext password as it would sit in the hashed_pwd column.
Plaintext(password) == [salt |-> "", digest |-> <<"plain", "", password>>]

\* Variant: the hasher hands the plaintext back.
BcryptHashPlain(password, salt) == Plaintext(password)

\* bcrypt::hash: a salted digest of the plaintext, under a fresh salt.
BcryptHash(password, salt) ==
    [salt |-> salt, digest |-> <<"bcrypt", salt, password>>]

\* Variant: a verify that accepts any plaintext.
BcryptVerifyAny(password, hashed) ==
    hashed.digest[1] = "bcrypt"

\* bcrypt::verify: recompute the digest under the stored salt and compare.
BcryptVerify(password, hashed) ==
    hashed.digest = <<"bcrypt", hashed.salt, password>>

(* ------------------------------- DTOs ---------------------------------- *)
UserCreateDTO(username, hashed_pwd, registration_date, interests) ==
    [username |-> username, hashed_pwd |-> hashed_pwd,
     registration_date |-> registration_date, interests |-> interests]

\* Variant: the row is read back without its interests column.
UserDBDTONoInterests(user) ==
    [id |-> user.id, username |-> user.username, hashed_pwd |-> user.hashed_pwd,
     registration_date |-> user.registration_date, interests |-> ""]

UserDBDTO(user) ==
    [id |-> user.id, username |-> user.username, hashed_pwd |-> user.hashed_pwd,
     registration_date |-> user.registration_date, interests |-> user.interests]

\* Variant: the outbound record also carries the stored hash.
UserOutDTOWithHash(created_user) ==
    [username |-> created_user.username, id |-> created_user.id,
     interests |-> created_user.interests, hashed_pwd |-> created_user.hashed_pwd]

UserOutDTO(created_user) ==
    [username |-> created_user.username, id |-> created_user.id,
     interests |-> created_user.interests]

(* --------------------------- service results --------------------------- *)
Pending == [tag |-> "pending"]
Panicked == [tag |-> "panic"]
None == [tag |-> "none"]
Some(user) == [tag |-> "some", user |-> user]

(* ---------------------------- HTTP outcomes ---------------------------- *)
NoOutcome == [kind |-> "none"]
Aborted == [kind |-> "aborted"]
Response(status, body) == [kind |-> "response", status |-> status, body |-> body]
Returned(result) == [kind |-> "returned", result |-> result]
EmptyBody == [empty |-> TRUE]

NoReq == [kind |-> "none"]
NoLocal == [set |-> FALSE]
NoEnv == [pool |-> "na", query |-> "na", sign |-> "na"]

(* ------------------------------- store --------------------------------- *)
\* Variant: a users table without the UNIQUE(username) constraint.
StoreInsertNoUnique(table, last_id, new_user, db_ok) ==
    LET id == last_id + 1
        row == [id |-> id, username |-> new_user.username,
                hashed_pwd |-> new_user.hashed_pwd,
                registration_date |-> new_user.registration_date,
                interests |-> new_user.interests]
    IN  [ok |-> db_ok,
         row |-> row,
         table |-> IF db_ok THEN table \cup {row} ELSE table,
         last_id |-> IF db_ok THEN id ELSE last_id]

\* The users table: serial primary key, UNIQUE(username).  A rejected
\* insert still consumes a value of the id sequence.
StoreInsert(table, last_id, new_user, db_ok) ==
    LET id == last_id + 1
        row == [id |-> id, username |-> new_user.username,
                hashed_pwd |-> new_user.hashed_pwd,
                registration_date |-> new_user.registration_date,
                interests |-> new_user.interests]
        accepted == db_ok /\ \A u \in table : u.username # new_user.username
    IN  [ok |-> accepted,
         row |-> row,
         table |-> IF accepted THEN table \cup {row} ELSE table,
         last_id |-> IF db_ok THEN id ELSE last_id]

Init ==
    /\ users = {}
    /\ seq = 0
    /\ lock = NoTask
    /\ waiters = <<>>
    /\ checked = {}
    /\ pc = [t \in Tasks |-> "idle"]
    /\ req = [t \in Tasks |-> NoReq]
    /\ local = [t \in Tasks |-> NoLocal]
    /\ env = [t \in Tasks |-> NoEnv]
    /\ svc = [t \in Tasks |-> Pending]
    /\ out = [t \in Tasks |-> NoOutcome]
    /\ started = 0
    /\ registered = {}
    /\ issued = [set |-> FALSE]
    /\ repo = [call |-> "none"]

(* ----------------------------- repository ------------------------------ *)
\* CompType, and the UsersSpecification values a caller can build.
CompTypes == {"Equals", "Gte", "Lte", "Lt", "Gt"}
Specifications ==
    [field : {"id"}, comp : CompTypes, value : 1..MaxRequests]
        \cup [field : {"username"}, comp : CompTypes, value : Usernames]

UsernameEquals(username) == [field |-> "username", comp |-> "Equals", value |-> username]
IdEquals(id) == [field |-> "id", comp |-> "Equals", value |-> id]

\* Variant: the insert overwrites the row of a taken username
\* (ON CONFLICT (username) DO UPDATE).
CreateFromDtoUpsert(user_create_data, table, last_id, db_ok) ==
    LET taken == {u \in table : u.username = user_create_data.username}
        ins == StoreInsert(table \ taken, last_id, user_create_data, db_ok)
    IN  [result |-> IF ins.ok THEN Some(UserDBDTO(ins.row)) ELSE Panicked,
         table |-> IF ins.ok THEN ins.table ELSE table, last_id |-> ins.last_id]

\* UsersRepo::create_from_dto: insert, then .expect(): a rejected insert panics.
CreateFromDto(user_create_data, table, last_id, db_ok) ==
    LET ins == StoreInsert(table, last_id, user_create_data, db_ok)
    IN  [result |-> IF ins.ok THEN Some(UserDBDTO(ins.row)) ELSE Panicked,
         table |-> ins.table, last_id |-> ins.last_id]

\* The rows the query of get_one_by selects.
Matching(specification, table) ==
    IF specification.field = "id"
    THEN {u \in table : u.id = specification.value}
    ELSE {u \in table : u.username = specification.value}

\* Variant: get_one_by unwraps the query result instead of mapping Err to None.
GetOneByUnwrap(specification, table, query) ==
    IF specification.comp # "Equals" THEN {Panicked}
    ELSE IF query = "err" THEN {Panicked}
    ELSE IF Matching(specification, table) = {} THEN {None}
    ELSE {Some(UserDBDTO(u)) : u \in Matching(specification, table)}

\* Variant: get_one_by reads every comparison as Equals.
GetOneByLenient(specification, table, query) ==
    IF query = "err" THEN {None}
    ELSE IF Matching(specification, table) = {} THEN {None}
    ELSE {Some(UserDBDTO(u)) : u \in Matching(specification, table)}

\* The statements get_one_by sends to the store: the shapes without a match
\* arm panic before the select is built.
Statements(specification) ==
    IF specification.comp = "Equals" THEN 1 ELSE 0

\* Variant: the select of get_one_by has lost its filter.
GetOneByAnyRow(specification, table, query) ==
    IF specification.comp # "Equals" THEN {Panicked}
    ELSE IF query = "err" THEN {None}
    ELSE IF table = {} THEN {None}
    ELSE {Some(UserDBDTO(u)) : u \in table}

\* UsersRepo::get_one_by: the possible results ("first" picks one matching
\* row); query is what the store answered, "ok" or "err".
GetOneBy(specification, table, query) ==
    IF specification.comp # "Equals" THEN {Panicked}
    ELSE IF query = "err" THEN {None}
    ELSE IF Matching(specification, table) = {} THEN {None}
    ELSE {Some(UserDBDTO(u)) : u \in Matching(specification, table)}

(* ------------------------------- service ------------------------------- *)
\* Variant: authenticate_user returns the row found without verifying.
AuthenticateUserNoVerify(user, password) ==
    IF user.tag = "some" THEN Some(user.user) ELSE None

\* UsersService::authenticate_user, the match on the row found.
AuthenticateUser(user, password) ==
    IF user.tag = "some"
    THEN IF BcryptVerify(password, user.user.hashed_pwd) THEN Some(user.user) ELSE None
    ELSE None

(* ---------------------------- token issuer ----------------------------- *)
\* DateTime::timestamp: whole seconds since the epoch.
Timestamp(time) == time \div TicksPerSecond
\* Duration::hours
Hours(n) == n * 3600 * TicksPerSecond

\* Variant: the lifetime is built with Duration::minutes(24).
EncodeJwtMinutes(username, now, sign_ok) ==
    LET expire == 24 * 60 * TicksPerSecond
        exp == Timestamp(now + expire)
        iat == Timestamp(now)
        claim == [iat |-> iat, exp |-> exp, username |-> username]
    IN  IF sign_ok
        THEN [ok |-> TRUE,
              token |-> [header |-> "HS256", claims |-> claim,
                         signature |-> <<Secret, claim>>]]
        ELSE [ok |-> FALSE, status |-> StatusInternalServerError]

\* encode_jwt: claims {exp, iat, username} signed with the fixed secret.
EncodeJwt(username, now, sign_ok) ==
    LET expire == Hours(24)
        exp == Timestamp(now + expire)
        iat == Timestamp(now)
        claim == [iat |-> iat, exp |-> exp, username |-> username]
    IN  IF sign_ok
        THEN [ok |-> TRUE,
              token |-> [header |-> "HS256", claims |-> claim,
                         signature |-> <<Secret, claim>>]]
        ELSE [ok |-> FALSE, status |-> StatusInternalServerError]

(* ----------------------------- HTTP layer ------------------------------ *)
\* create_user handler, after the service call returned.
CreateUserResponse(created_user) ==
    Response(StatusOk, UserOutDTO(created_user))

\* Variant: sign_in answers 401 when signing fails.
SignInResponseSwallow(result, now, sign_ok) ==
    IF result.tag = "some" /\ EncodeJwt(result.user.username, now, sign_ok).ok
    THEN Response(StatusOk, EncodeJwt(result.user.username, now, sign_ok).token)
    ELSE Response(StatusUnauthorized, EmptyBody)

\* sign_in handler, the match on the result of authenticate_user.
SignInResponse(result, now, sign_ok) ==
    IF result.tag = "some"
    THEN LET jwt == EncodeJwt(result.user.username, now, sign_ok)
         IN  IF jwt.ok THEN Response(StatusOk, jwt.token)
             ELSE Response(StatusInternalServerError, EmptyBody)
    ELSE Response(StatusUnauthorized, EmptyBody)

\* The Json extractor rejects a body that does not deserialize.
JsonRejection == Response(StatusUnprocessable, EmptyBody)

(* --------------------- outcomes of the three requests ------------------ *)
\* Handler create_user around UsersService::create_user: what the insert of
\* user_create_data leaves in the store and what the caller observes.
RegisterOutcome(table, last_id, user_create_data, db_ok) ==
    LET created == CreateFromDto(user_create_data, table, last_id, db_ok)
    IN  [svc |-> created.result,
         out |-> IF created.result.tag = "some"
                 THEN CreateUserResponse(created.result.user)
                 ELSE Aborted,
         table |-> created.table,
         last_id |-> created.last_id]

\* Handler sign_in around UsersService::authenticate_user: the possible
\* pairs of service result and response.
LoginOutcomes(table, username, password, query, now, sign_ok) ==
    { [svc |-> AuthenticateUser(user, password),
       out |-> SignInResponse(AuthenticateUser(user, password), now, sign_ok)] :
      user \in GetOneBy(UsernameEquals(username), table, query) }

\* UsersService::find_by_username: the possible results.
FindByUsernameResults(table, username, query) ==
    GetOneBy(UsernameEquals(username), table, query)

(* ------------------------------ actions -------------------------------- *)
\* Utc::now(), in ticks of a logical clock: time is read off the id sequence
\* of the table, so it passes between inserts and no two rows are stamped
\* by the same reading.
Now == seq

Malformed == [kind |-> "malformed"]

\* Outcomes are observed one at a time: a finished request is taken by its
\* caller before the next step of any task.
NoneDone == \A x \in Tasks : pc[x] # "done"

\* A request arrives at a route: the extractors run, then the handler asks
\* for the write guard of the service lock.
Accept(t, request) ==
    /\ pc[t] = "idle"
    /\ NoneDone
    /\ started < MaxRequests
    /\ started' = started + 1
    /\ req' = [req EXCEPT ![t] = request]
    /\ pc' = [pc EXCEPT ![t] = "wait_lock"]
    /\ waiters' = Append(waiters, t)
    /\ UNCHANGED <<users, seq, lock, checked, local, env, svc, out, registered, issued, repo>>

\* POST /register with a body that deserializes into UserCreateInDTO.
PostRegister(t) ==
    \E u \in Usernames, p \in Passwords, i \in Interests :
        Accept(t, [kind |-> "register", username |-> u, password |-> p, interests |-> i])

\* POST /login with a body that deserializes into SignInData.
PostLogin(t) ==
    \E u \in Usernames, p \in Passwords :
        Accept(t, [kind |-> "login", username |-> u, password |-> p])

\* A caller of UsersService::find_by_username on the shared service.
CallFindByUsername(t) ==
    \E u \in Usernames :
        Accept(t, [kind |-> "lookup", username |-> u])

\* POST /register or /login with a body the Json extractor rejects: the
\* handler body never runs.
PostMalformed(t) ==
    /\ pc[t] = "idle"
    /\ NoneDone
    /\ started < MaxRequests
    /\ started' = started + 1
    /\ req' = [req EXCEPT ![t] = Malformed]
    /\ out' = [out EXCEPT ![t] = JsonRejection]
    /\ pc' = [pc EXCEPT ![t] = "done"]
    /\ UNCHANGED <<users, seq, lock, waiters, checked, local, env, svc, registered, issued, repo>>

\* Variant: the handler takes a guard that does not exclude other holders.
AcquireLockNoExclusion(t) ==
    /\ pc[t] = "wait_lock"
    /\ NoneDone
    /\ waiters # <<>> /\ Head(waiters) = t
    /\ lock' = t
    /\ waiters' = Tail(waiters)
    /\ pc' = [pc EXCEPT ![t] = "create_uow"]
    /\ IF req[t].kind = "register"
       THEN \E salt \in Salts :
                local' = [local EXCEPT ![t] =
                    [set |-> TRUE,
                     dto |-> UserCreateDTO(req[t].username,
                                           BcryptHash(req[t].password, salt),
                                           Now, req[t].interests)]]
       ELSE UNCHANGED local
    /\ UNCHANGED <<users, seq, checked, req, env, svc, out, started, registered, issued, repo>>

\* users_service.write().await completes: the guard goes to the task at the
\* head of the queue once the lock is free.  In create_user the service then
\* hashes the password and stamps the time before it asks for a connection.
AcquireLock(t) ==
    /\ pc[t] = "wait_lock"
    /\ NoneDone
    /\ lock = NoTask
    /\ waiters # <<>> /\ Head(waiters) = t
    /\ lock' = t
    /\ waiters' = Tail(waiters)
    /\ pc' = [pc EXCEPT ![t] = "create_uow"]
    /\ IF req[t].kind = "register"
       THEN \E salt \in Salts :
                local' = [local EXCEPT ![t] =
                    [set |-> TRUE,
                     dto |-> UserCreateDTO(req[t].username,
                                           BcryptHash(req[t].password, salt),
                                           Now, req[t].interests)]]
       ELSE UNCHANGED local
    /\ UNCHANGED <<users, seq, checked, req, env, svc, out, started, registered, issued, repo>>

\* The UnitOfWork values alive in task t, and the connections idle in the pool.
Holding(t) == {h \in checked : h.task = t}
IdleConns == Conns \ {h.conn : h \in checked}

\* Variant: the write guard outlives the service call.
LeaveKeepsLock(t, result, outcome) ==
    /\ checked' = checked \ Holding(t)
    /\ lock' = lock
    /\ svc' = [svc EXCEPT ![t] = result]
    /\ out' = [out EXCEPT ![t] = outcome]
    /\ pc' = [pc EXCEPT ![t] = "done"]

\* Variant: the UnitOfWork is forgotten instead of dropped, so its connection
\* never goes back to the pool.
LeaveLeaksConnection(t, result, outcome) ==
    /\ checked' = checked
    /\ lock' = NoTask
    /\ svc' = [svc EXCEPT ![t] = result]
    /\ out' = [out EXCEPT ![t] = outcome]
    /\ pc' = [pc EXCEPT ![t] = "done"]

\* Variant: a panic inside the service call leaves the lock unusable, as a
\* poisoned std::sync::RwLock would.
LeaveLeakOnPanic(t, result, outcome) ==
    /\ checked' = checked \ Holding(t)
    /\ lock' = IF result = Panicked THEN lock ELSE NoTask
    /\ svc' = [svc EXCEPT ![t] = result]
    /\ out' = [out EXCEPT ![t] = outcome]
    /\ pc' = [pc EXCEPT ![t] = "done"]

\* The service call ends: the UnitOfWork is dropped (its connection goes
\* back to the pool) and the write guard is dropped.
Leave(t, result, outcome) ==
    /\ checked' = checked \ Holding(t)
    /\ lock' = NoTask
    /\ svc' = [svc EXCEPT ![t] = result]
    /\ out' = [out EXCEPT ![t] = outcome]
    /\ pc' = [pc EXCEPT ![t] = "done"]

\* Variant: create_uow checks out every idle connection of the pool.
CreateUowAll(t) ==
    /\ pc[t] = "create_uow"
    /\ NoneDone
    /\ IdleConns # {}
    /\ checked' = checked \cup {[task |-> t, conn |-> c] : c \in IdleConns}
    /\ env' = [env EXCEPT ![t].pool = "ok"]
    /\ pc' = [pc EXCEPT ![t] = "query"]
    /\ UNCHANGED <<lock, svc, out>>
    /\ UNCHANGED <<users, seq, waiters, req, local, started, registered, issued, repo>>

\* UnitOfWorkFactory::create_uow: conn_pool.get().await.unwrap().  The pool
\* has no timeout: get() waits while every connection is checked out, then
\* hands one out or fails to make it ready.
CreateUow(t) ==
    /\ pc[t] = "create_uow"
    /\ NoneDone
    /\ IdleConns # {}
    /\ \E pool_ok \in BOOLEAN :
        IF pool_ok
        THEN /\ \E c \in IdleConns :
                    checked' = checked \cup {[task |-> t, conn |-> c]}
             /\ env' = [env EXCEPT ![t].pool = "ok"]
             /\ pc' = [pc EXCEPT ![t] = "query"]
             /\ UNCHANGED <<lock, svc, out>>
        ELSE /\ env' = [env EXCEPT ![t].pool = "err"]
             /\ Leave(t, Panicked, Aborted)
    /\ UNCHANGED <<users, seq, waiters, req, local, started, registered, issued, repo>>

\* create_user: the insert answers; handler create_user builds the response.
Insert(t) ==
    /\ pc[t] = "query"
    /\ NoneDone
    /\ req[t].kind = "register"
    /\ \E db_ok \in BOOLEAN :
        LET o == RegisterOutcome(users, seq, local[t].dto, db_ok)
        IN  /\ users' = o.table
            /\ seq' = o.last_id
            /\ env' = [env EXCEPT ![t].query =
                          IF ~db_ok THEN "err"
                          ELSE IF o.svc.tag = "some" THEN "ok" ELSE "conflict"]
            /\ registered' = IF o.svc.tag = "some"
                             THEN registered \cup
                                  {[username |-> req[t].username,
                                    password |-> req[t].password,
                                    interests |-> req[t].interests,
                                    id |-> o.svc.user.id]}
                             ELSE registered
            /\ Leave(t, o.svc, o.out)
    /\ UNCHANGED <<waiters, req, local, started, issued, repo>>

\* authenticate_user: the select answers; handler sign_in builds the response.
Authenticate(t) ==
    /\ pc[t] = "query"
    /\ NoneDone
    /\ req[t].kind = "login"
    /\ \E query \in {"ok", "err"}, sign_ok \in BOOLEAN :
        \E o \in LoginOutcomes(users, req[t].username, req[t].password,
                               query, Now, sign_ok) :
            /\ env' = [env EXCEPT ![t].query = query,
                                  ![t].sign = IF o.svc.tag # "some" THEN "na"
                                              ELSE IF sign_ok THEN "ok" ELSE "err"]
            /\ Leave(t, o.svc, o.out)
    /\ UNCHANGED <<users, seq, waiters, req, local, started, registered, issued, repo>>

\* find_by_username: the select answers; the result goes back to the caller.
FindByUsername(t) ==
    /\ pc[t] = "query"
    /\ NoneDone
    /\ req[t].kind = "lookup"
    /\ \E query \in {"ok", "err"} :
        \E user \in FindByUsernameResults(users, req[t].username, query) :
            /\ env' = [env EXCEPT ![t].query = query]
            /\ Leave(t, user, Returned(user))
    /\ UNCHANGED <<users, seq, waiters, req, local, started, registered, issued, repo>>

\* The caller takes the outcome; the task is free for the next request.
Finish(t) ==
    /\ pc[t] = "done"
    /\ pc' = [pc EXCEPT ![t] = "idle"]
    /\ req' = [req EXCEPT ![t] = NoReq]
    /\ local' = [local EXCEPT ![t] = NoLocal]
    /\ env' = [env EXCEPT ![t] = NoEnv]
    /\ svc' = [svc EXCEPT ![t] = Pending]
    /\ out' = [out EXCEPT ![t] = NoOutcome]
    /\ UNCHANGED <<users, seq, lock, waiters, checked, started, registered, issued, repo>>

Next ==
    \E t \in Tasks :
        \/ PostRegister(t)
        \/ PostLogin(t)
        \/ CallFindByUsername(t)
        \/ PostMalformed(t)
        \/ AcquireLock(t)
        \/ CreateUow(t)
        \/ Insert(t)
        \/ Authenticate(t)
        \/ FindByUsername(t)
        \/ Finish(t)

Spec == Init /\ [][Next]_vars

\* The tokio runtime polls every task that can make a step, the lock hands
\* the guard over in arrival order, and pool and store answer every call.
ServiceStep(t) ==
    \/ AcquireLock(t)
    \/ CreateUow(t)
    \/ Insert(t)
    \/ Authenticate(t)
    \/ FindByUsername(t)
    \/ Finish(t)

SpecFair == Init /\ [][Next]_vars /\ \A t \in Tasks : WF_vars(ServiceStep(t))

(* ------------------ the token issuer on its own (SpecJwt) -------------- *)
\* encode_jwt applied to a username at an issue time.
IssueToken ==
    /\ \E username \in Usernames, now \in IssueTimes, sign_ok \in BOOLEAN :
           issued' = [set |-> TRUE, username |-> username, now |-> now,
                      jwt |-> EncodeJwt(username, now, sign_ok)]
    /\ UNCHANGED <<users, seq, lock, waiters, checked, pc, req, local, env, svc,
                   out, started, registered, repo>>

SpecJwt == Init /\ [][IssueToken]_vars

(* ------------------ the repository on its own (SpecRepo) --------------- *)
\* UsersRepo::create_from_dto called on a unit of work, as the repository
\* tests do.
RepoCreateFromDto ==
    /\ seq < MaxRequests
    /\ \E u \in Usernames, p \in Passwords, i \in Interests, salt \in Salts,
          db_ok \in BOOLEAN :
          LET created == CreateFromDto(UserCreateDTO(u, BcryptHash(p, salt), Now, i),
                                       users, seq, db_ok)
          IN  /\ users' = created.table
              /\ seq' = created.last_id
              /\ repo' = [call |-> "create_from_dto", result |-> created.result]
    /\ UNCHANGED <<lock, waiters, checked, pc, req, local, env, svc, out, started,
                   registered, issued>>

\* UsersRepo::get_one_by called with any specification a caller can build.
RepoGetOneBy ==
    /\ \E specification \in Specifications, query \in {"ok", "err"} :
          \E result \in GetOneBy(specification, users, query) :
              repo' = [call |-> "get_one_by", specification |-> specification,
                       statements |-> Statements(specification),
                       query |-> IF Statements(specification) = 0 THEN "na" ELSE query,
                       result |-> result]
    /\ UNCHANGED <<users, seq, lock, waiters, checked, pc, req, local, env, svc, out,
                   started, registered, issued>>

NextRepo == RepoCreateFromDto \/ RepoGetOneBy

SpecRepo == Init /\ [][NextRepo]_vars

(* ======================== properties of the service ==================== *)
DoneOf(t, kind) == pc[t] = "done" /\ req[t].kind = kind
HasRow(username) == \E r \in users : r.username = username
IsResponse(o, status) == o.kind = "response" /\ o.status = status

\* C1: in every reachable state no two rows of the users table share a
\* username.
C1_UniqueUsernames ==
    \A a, b \in users : a.username = b.username => a = b

\* C1 witness: two rows are stored and a registration of a taken username
\* has just been turned down.
C1_Witness ==
    /\ Cardinality(users) = 2
    /\ \E t \in Tasks : DoneOf(t, "register") /\ env[t].query = "conflict"

\* C2: a register request for a username that already has a row ends in a
\* 4xx response (never a success, never an aborted handler) and leaves the
\* stored rows as they were.
C2_DuplicateRegisterIs4xx ==
    [][\A t \in Tasks :
        (/\ pc[t] = "query" /\ req[t].kind = "register" /\ pc'[t] = "done"
         /\ HasRow(req[t].username) /\ env'[t].query = "conflict")
        => /\ users' = users
           /\ out'[t].kind = "response"
           /\ out'[t].status >= 400 /\ out'[t].status <= 499]_vars

\* C3 as stated: whenever authenticate(u, p) returns, it returns a user
\* exactly when a row with username u exists and p verifies against the
\* hash stored in that row.
C3_AuthenticateExactlyWhenVerified ==
    \A t \in Tasks :
        (DoneOf(t, "login") /\ svc[t].tag # "panic")
        => (svc[t].tag = "some"
            <=> \E r \in users : /\ r.username = req[t].username
                                 /\ BcryptVerify(req[t].password, r.hashed_pwd))

\* C3 amended: whenever authenticate(u, p) returns and its query did not
\* fail, it returns a user exactly when a row with username u exists and p
\* verifies against that row's hash; after register(u, p0) succeeded the
\* result is the row that registration created when p = p0 and absent
\* otherwise; when the query fails the result is absent.
C3_AuthenticateWhenQueryAnswers ==
    \A t \in Tasks :
        DoneOf(t, "login") /\ svc[t].tag # "panic"
        => /\ env[t].query = "err" => svc[t] = None
           /\ env[t].query = "ok" =>
               /\ svc[t].tag = "some"
                  <=> \E r \in users : /\ r.username = req[t].username
                                       /\ BcryptVerify(req[t].password, r.hashed_pwd)
               /\ \A g \in registered :
                     g.username = req[t].username =>
                        IF g.password = req[t].password
                        THEN /\ svc[t].tag = "some"
                             /\ svc[t].user \in users
                             /\ svc[t].user.id = g.id
                        ELSE svc[t] = None

\* C3 witness: a login with the registered password has returned the row
\* of that registration.
C3_Witness ==
    \E t \in Tasks :
        /\ DoneOf(t, "login") /\ svc[t].tag = "some"
        /\ \E g \in registered : g.username = req[t].username /\ g.id = svc[t].user.id

\* C4: on one store state, a login for a username without a row and a login
\* for a registered username with another password give the same service
\* result (absent) and the same response (401, same body), whatever the
\* store and the signer answer; and such a login changes no stored state.
C4_Identical ==
    /\ \A u1, u2 \in Usernames, p2 \in Passwords :
          (/\ ~HasRow(u1)
           /\ \E g \in registered : g.username = u2 /\ g.password # p2)
          => \A p1 \in Passwords, q1, q2 \in {"ok", "err"}, s1, s2 \in BOOLEAN :
                \A o1 \in LoginOutcomes(users, u1, p1, q1, Now, s1),
                   o2 \in LoginOutcomes(users, u2, p2, q2, Now, s2) :
                    /\ o1 = o2
                    /\ o1.svc = None
                    /\ o1.out = Response(StatusUnauthorized, EmptyBody)
    /\ \A t \in Tasks :
          (/\ DoneOf(t, "login") /\ svc[t].tag # "panic"
           /\ \/ ~HasRow(req[t].username)
              \/ \E g \in registered : /\ g.username = req[t].username
                                        /\ g.password # req[t].password)
          => svc[t] = None /\ out[t] = Response(StatusUnauthorized, EmptyBody)

C4_NoStateChange ==
    \A t \in Tasks :
        (pc[t] = "query" /\ req[t].kind = "login" /\ pc'[t] = "done")
        => users' = users /\ seq' = seq /\ registered' = registered

C4_FailuresIndistinguishable == []C4_Identical /\ [][C4_NoStateChange]_vars

\* C4 witness: a login with a wrong password for a registered username has
\* been answered 401.
C4_Witness ==
    \E t \in Tasks :
        /\ DoneOf(t, "login") /\ env[t].query = "ok"
        /\ \E g \in registered : /\ g.username = req[t].username
                                  /\ g.password # req[t].password
        /\ IsResponse(out[t], StatusUnauthorized)

\* C5: POST /login answers 200 with a token exactly when authenticate
\* returned a user and signing succeeded, 401 exactly when authenticate
\* returned absent, 500 exactly when it returned a user and signing failed;
\* a request whose authenticate result was absent never gets a token.
C5_LoginStatus ==
    \A t \in Tasks :
        DoneOf(t, "login") =>
            /\ IsResponse(out[t], StatusOk)
               <=> (svc[t].tag = "some" /\ env[t].sign = "ok")
            /\ IsResponse(out[t], StatusUnauthorized) <=> svc[t].tag = "none"
            /\ IsResponse(out[t], StatusInternalServerError)
               <=> (svc[t].tag = "some" /\ env[t].sign = "err")
            /\ IsResponse(out[t], StatusOk)
               => /\ DOMAIN out[t].body = {"header", "claims", "signature"}
                  /\ out[t].body.claims.username = svc[t].user.username
            /\ svc[t].tag = "none" => out[t].body = EmptyBody

\* C5 witness: authenticate returned a user and signing failed.
C5_Witness ==
    \E t \in Tasks :
        DoneOf(t, "login") /\ svc[t].tag = "some" /\ env[t].sign = "err"

\* C6: every outcome the caller of a register or login request observes is
\* a response with status 200, 401, 4xx or 500; no request ends without a
\* response while the process keeps serving.
C6_OnlyListedStatuses ==
    \A t \in Tasks :
        (pc[t] = "done" /\ req[t].kind \in {"register", "login", "malformed"})
        => /\ out[t].kind = "response"
           /\ \/ out[t].status \in {StatusOk, StatusUnauthorized, StatusInternalServerError}
              \/ (out[t].status >= 400 /\ out[t].status <= 499)

\* C7: the /register response carries only id, username and interests, and
\* the response a register request is about to get is the one it would get,
\* on the same store state, with any other password and salt; the /login
\* response carries only a token whose claims are username, iat and exp.
C7_NoPasswordMaterial ==
    /\ \A t \in Tasks :
          (DoneOf(t, "register") /\ out[t].kind = "response")
          => DOMAIN out[t].body = {"id", "username", "interests"}
    /\ \A t \in Tasks :
          (pc[t] = "query" /\ req[t].kind = "register")
          => \A p \in Passwords, s \in Salts, db_ok \in BOOLEAN :
                RegisterOutcome(users, seq, local[t].dto, db_ok).out
                = RegisterOutcome(users, seq,
                      UserCreateDTO(req[t].username, BcryptHash(p, s),
                                    local[t].dto.registration_date,
                                    req[t].interests), db_ok).out
    /\ \A t \in Tasks :
          (DoneOf(t, "login") /\ IsResponse(out[t], StatusOk))
          => /\ DOMAIN out[t].body = {"header", "claims", "signature"}
             /\ DOMAIN out[t].body.claims = {"username", "iat", "exp"}
             /\ out[t].body.signature = <<Secret, out[t].body.claims>>

\* C7 witness: a registration has been answered with the public record.
C7_Witness ==
    \E t \in Tasks : DoneOf(t, "register") /\ IsResponse(out[t], StatusOk)

\* C8: the token issued for username u at any issue time carries the claims
\* username = u and exp - iat = 86400 seconds.
C8_TokenLifetime ==
    (issued.set /\ issued.jwt.ok)
    => /\ issued.jwt.token.claims.username = issued.username
       /\ issued.jwt.token.claims.exp - issued.jwt.token.claims.iat = 86400

\* C8 witness: a token was issued at a time that is not a whole second.
C8_Witness ==
    /\ issued.set /\ issued.jwt.ok
    /\ issued.now % TicksPerSecond # 0
    /\ issued.jwt.token.claims.iat > 0

\* C9: a row is never updated or deleted: every row of a state is, with all
\* its fields, a row of the next state, and ids identify rows; login and
\* findByUsername leave the table unchanged; a successful register adds
\* exactly one row; nothing else changes the table.
C9_Step ==
    /\ \A r \in users : r \in users'
    /\ \A a, b \in users' : a.id = b.id => a = b
    /\ \A t \in Tasks :
          (pc[t] = "query" /\ pc'[t] = "done" /\ req[t].kind \in {"login", "lookup"})
          => users' = users
    /\ \A t \in Tasks :
          (pc[t] = "query" /\ pc'[t] = "done" /\ req[t].kind = "register"
           /\ svc'[t].tag = "some")
          => /\ Cardinality(users') = Cardinality(users) + 1
             /\ users' = users \cup {svc'[t].user}
    /\ users' # users
       => \E t \in Tasks : /\ pc[t] = "query" /\ pc'[t] = "done"
                            /\ req[t].kind = "register" /\ svc'[t].tag = "some"

C9_RowsImmutable == [][C9_Step]_vars

\* C9 witness: a second registration has succeeded beside an existing row.
C9_Witness ==
    /\ Cardinality(users) = 2
    /\ \E t \in Tasks : DoneOf(t, "register") /\ svc[t].tag = "some"

\* C10 as stated: on one store state (no write in between), two
\* findByUsername calls with the same username return the same result
\* whatever the store answers to each of them.
C10_SameResultWhateverTheStoreDoes ==
    \A u \in Usernames, q1, q2 \in {"ok", "err"} :
        \A r1 \in FindByUsernameResults(users, u, q1),
           r2 \in FindByUsernameResults(users, u, q2) : r1 = r2

\* C10 amended: on one store state (no write in between), findByUsername
\* calls with the same username whose queries do not fail return the same
\* result: the row with that username if there is one, absent otherwise; a
\* call whose query fails returns absent.
C10_SameResultWhenQueriesAnswer ==
    /\ \A u \in Usernames :
          /\ \A r1, r2 \in FindByUsernameResults(users, u, "ok") : r1 = r2
          /\ \A r \in FindByUsernameResults(users, u, "ok") :
                IF HasRow(u)
                THEN r.tag = "some" /\ r.user \in users /\ r.user.username = u
                ELSE r = None
          /\ FindByUsernameResults(users, u, "err") = {None}
    /\ \A t \in Tasks :
          (DoneOf(t, "lookup") /\ svc[t].tag # "panic" /\ env[t].query = "ok")
          => \A r \in FindByUsernameResults(users, req[t].username, "ok") : svc[t] = r

\* C10 witness: a lookup whose query was answered has returned a row while
\* the table holds two rows.
C10_Witness ==
    /\ Cardinality(users) = 2
    /\ \E t \in Tasks :
          DoneOf(t, "lookup") /\ env[t].query = "ok" /\ svc[t].tag = "some"

(* ================= properties of lock, pool and repository ============= *)
InService(t) == pc[t] \in {"create_uow", "query"}
RowOf(username) == {r \in users : r.username = username}

C11_Safe ==
    /\ \A t \in Tasks :
          DoneOf(t, "register") =>
              \/ /\ svc[t].tag = "some"
                 /\ svc[t].user.username = req[t].username
                 /\ FindByUsernameResults(users, req[t].username, "ok") = {svc[t]}
              \/ /\ svc[t] = Panicked
                 /\ \/ env[t].pool = "err"
                    \/ env[t].query = "err"
                    \/ \E r \in registered : r.username = req[t].username
    /\ \A r \in registered :
          \E u \in RowOf(r.username) :
              u.id = r.id /\ FindByUsernameResults(users, r.username, "ok") = {Some(UserDBDTO(u))}
    /\ (\E t \in Tasks : pc[t] # "idle") => \E t \in Tasks : ENABLED ServiceStep(t)

Ids == 1..(seq + 1)

C12_AbsentWithoutRow ==
    /\ \A u \in Usernames, q \in {"ok", "err"} :
          ~HasRow(u) => FindByUsernameResults(users, u, q) = {None}
    /\ \A id \in Ids, q \in {"ok", "err"} :
          (\A r \in users : r.id # id) => GetOneBy(IdEquals(id), users, q) = {None}

\* C12 as stated: a finished find_by_username returns the registered record
\* whenever the username is registered, and absent when it has no row.
C12_FindByUsernameReturnsRegistered ==
    /\ \A t \in Tasks :
          DoneOf(t, "lookup") =>
              IF HasRow(req[t].username)
              THEN svc[t].tag = "some" /\ svc[t].user.username = req[t].username
              ELSE svc[t] = None
    /\ C12_AbsentWithoutRow

\* C12: a find_by_username whose query did not fail returns, for a registered
\* username, the record with the username, interests and id of that
\* registration; whenever its query fails it returns absent; for a username
\* with no row, and for a lookup by an id with no row, the result is absent.
C12_FindByUsernameWhenQueryAnswers ==
    /\ \A t \in Tasks :
          DoneOf(t, "lookup") =>
              /\ env[t].query = "ok" =>
                    /\ \A r \in registered :
                          r.username = req[t].username =>
                              /\ svc[t].tag = "some"
                              /\ svc[t].user.username = r.username
                              /\ svc[t].user.interests = r.interests
                              /\ svc[t].user.id = r.id
                    /\ ~HasRow(req[t].username) => svc[t] = None
              /\ env[t].query = "err" => svc[t] = None
    /\ C12_AbsentWithoutRow

\* C12 witness: a lookup of a registered username has returned its record
\* while an id of the sequence has no row.
C12_Witness ==
    \E t \in Tasks :
        /\ DoneOf(t, "lookup") /\ svc[t].tag = "some"
        /\ \E r \in registered : r.username = req[t].username
        /\ \E id \in Ids : \A r \in users : r.id # id

\* C13: a successful register answers 200 with the id the store assigned and
\* the username and interests as given; that id belongs to exactly one row,
\* the row of this registration; the first row of the table has id 1; and
\* the row stores a hash that verifies the password, never the plaintext.
C13_RegisterReturnsStoredRecord ==
    /\ \A a, b \in users : a.id = b.id => a = b
    /\ \A a \in users : users = {a} => a.id = 1
    /\ \A t \in Tasks :
          DoneOf(t, "register") /\ svc[t].tag = "some" =>
              /\ IsResponse(out[t], StatusOk)
              /\ out[t].body.id = svc[t].user.id
              /\ out[t].body.username = req[t].username
              /\ out[t].body.interests = req[t].interests
              /\ \E u \in users :
                    /\ u.id = svc[t].user.id
                    /\ u.username = req[t].username
                    /\ u.interests = req[t].interests
                    /\ \A v \in users : v.id = u.id => v = u
                    /\ u.hashed_pwd # Plaintext(req[t].password)
                    /\ \E salt \in Salts : u.hashed_pwd = BcryptHash(req[t].password, salt)
                    /\ BcryptVerify(req[t].password, u.hashed_pwd)

\* C13 witness: the second registration has succeeded, with an id above 1.
C13_Witness ==
    \E t \in Tasks :
        /\ DoneOf(t, "register") /\ svc[t].tag = "some"
        /\ svc[t].user.id > 1
        /\ Cardinality(users) = 2

Unsupported(specification) == specification.comp # "Equals"

\* C14: get_one_by called with a predicate other than 'id equals V' or
\* 'username equals V' panics: it returns neither a row nor absent, whatever
\* the table holds, and it sends no statement to the store.
C14_UnsupportedPredicatePanics ==
    /\ repo.call = "get_one_by" /\ Unsupported(repo.specification) =>
          repo.result = Panicked /\ repo.statements = 0 /\ repo.query = "na"
    /\ repo.call = "get_one_by" /\ ~Unsupported(repo.specification) =>
          repo.result # Panicked /\ repo.statements = 1
    /\ \A specification \in Specifications, query \in {"ok", "err"} :
          Unsupported(specification) =>
              GetOneBy(specification, users, query) = {Panicked}

\* C14 witness: get_one_by was called with 'id >= 1' on a table that holds
\* the row with id 1, and panicked.
C14_Witness ==
    /\ repo.call = "get_one_by"
    /\ repo.specification = [field |-> "id", comp |-> "Gte", value |-> 1]
    /\ \E u \in users : u.id = 1
    /\ repo.result = Panicked

\* C15: when the select of get_one_by fails, the result is absent, the same
\* as for a table without a matching row: find_by_username returns absent
\* and login answers 401, also when the row exists and the password matches.
C15_QueryErrorIsAbsent ==
    /\ \A u \in Usernames :
          GetOneBy(UsernameEquals(u), users, "err") = GetOneBy(UsernameEquals(u), {}, "ok")
    /\ \A t \in Tasks :
          /\ DoneOf(t, "lookup") /\ env[t].query = "err" =>
                svc[t] = None /\ out[t] = Returned(None)
          /\ DoneOf(t, "login") /\ env[t].query = "err" =>
                svc[t] = None /\ IsResponse(out[t], StatusUnauthorized)

\* C15 witness: a login with the registered password of a registered
\* username was answered 401 because its query failed.
C15_Witness ==
    \E t \in Tasks :
        /\ DoneOf(t, "login") /\ env[t].query = "err"
        /\ \E g \in registered : g.username = req[t].username /\ g.password = req[t].password
        /\ HasRow(req[t].username)
        /\ IsResponse(out[t], StatusUnauthorized)

\* C16: a task is inside a UsersService call only while it holds the write
\* guard of the one shared lock, on the register, the login and the lookup
\* path alike; so no two tasks are inside a service call at once, and the
\* guard is held by no task outside a service call.
C16_ServiceCallsExclusive ==
    /\ \A t \in Tasks : InService(t) => lock = t
    /\ \A a, b \in Tasks : InService(a) /\ InService(b) => a = b
    /\ lock # NoTask => InService(lock)
    /\ \A t \in Tasks : pc[t] = "wait_lock" => lock # t

\* C16 witness: a login is inside the service call, holding the lock, while
\* another login waits for it.
C16_Witness ==
    \E a, b \in Tasks :
        /\ a # b
        /\ pc[a] = "query" /\ req[a].kind = "login" /\ lock = a
        /\ pc[b] = "wait_lock" /\ req[b].kind = "login"

\* C17: a task holds a unit of work exactly while it is at its store
\* statement, and then exactly one; no pooled connection is held by two
\* tasks; and a finished request that sent a statement had checked out its
\* own connection, while one whose checkout failed sent none.
C17_OneGatewayPerRequest ==
    /\ \A t \in Tasks :
          /\ pc[t] = "query" => Cardinality(Holding(t)) = 1
          /\ pc[t] # "query" => Holding(t) = {}
          /\ pc[t] = "done" /\ env[t].query # "na" => env[t].pool = "ok"
          /\ pc[t] = "done" /\ env[t].pool = "err" => env[t].query = "na"
          /\ DoneOf(t, "register") \/ DoneOf(t, "login") \/ DoneOf(t, "lookup")
                => env[t].pool \in {"ok", "err"}
    /\ \A a, b \in checked : a.conn = b.conn => a = b
    /\ \A h \in checked : h.conn \in Conns

\* C17 witness: a register is at its insert holding the second connection
\* of the pool while another request waits for the lock.
C17_Witness ==
    \E a, b \in Tasks :
        /\ pc[a] = "query" /\ req[a].kind = "register"
        /\ Holding(a) = {[task |-> a, conn |-> 2]}
        /\ pc[b] = "wait_lock"

\* C19: in every reachable state at most one pooled connection is checked
\* out, and only by the task that holds the lock: a connection is checked
\* out after the lock is taken and is back in the pool when the lock is free.
C19_AtMostOneConnectionOut ==
    /\ Cardinality(checked) <= 1
    /\ \A h \in checked : lock = h.task
    /\ lock = NoTask => checked = {}

\* C19 witness: one connection is checked out, the others are idle, and a
\* second request has been accepted and waits for the lock.
C19_Witness ==
    /\ Cardinality(checked) = 1
    /\ IdleConns # {}
    /\ \E t \in Tasks : pc[t] = "wait_lock"
    /\ started >= 2

C20_Safe ==
    /\ \A t \in Tasks :
          pc[t] = "done" /\ out[t] = Aborted =>
              /\ lock = NoTask
              /\ checked = {}
              /\ req[t].kind = "register" \/ env[t].pool = "err"
    /\ lock = NoTask /\ waiters # <<>> /\ NoneDone => ENABLED AcquireLock(Head(waiters))
    /\ \A t \in Tasks : pc[t] = "create_uow" /\ NoneDone => ENABLED CreateUow(t)

\* C20: a request that aborts inside the service call (rejected insert,
\* failed pool checkout) has released the lock and holds no connection; the
\* next waiting request can take the lock and a request in the service can
\* check out a connection; and under fair scheduling every request that
\* waits for the lock when another one aborts finishes.
C20_AbortReleasesLockAndConnection ==
    /\ []C20_Safe
    /\ \A t \in Tasks :
          (pc[t] = "wait_lock" /\ \E a \in Tasks : pc[a] = "done" /\ out[a] = Aborted)
              ~> (pc[t] = "done")

\* C20 witness: a duplicate register has aborted while another request
\* waits for the lock, which is free again.
C20_Witness ==
    \E a, b \in Tasks :
        /\ DoneOf(a, "register") /\ out[a] = Aborted /\ env[a].query = "conflict"
        /\ pc[b] = "wait_lock"
        /\ lock = NoTask /\ checked = {}

====
